---------------------------- MODULE Spec2Model ----------------------------
(***************************************************************************)
(* A model of trimesh.py: the Trimesh object (vertices, faces, edges,      *)
(* normal_face), its in-place operations (generate_edges, merge_vertices,  *)
(* remove_unreferenced, generate_normals, cross_section) and the helper    *)
(* functions they call, plus unique_rows / row_to_string.                  *)
(*                                                                         *)
(* Conventions.  Python indices are 0-based and are kept 0-based as        *)
(* values (a face is a triple of 0-based vertex indices); TLA+ sequences   *)
(* are 1-based, so vertices[i] of the source is vertices[i + 1] here.      *)
(* Coordinates are integers and arithmetic is exact.  A quotient the       *)
(* source computes in floating point is kept as a numerator/denominator    *)
(* pair, so a division by zero is visible as a zero denominator.           *)
(***************************************************************************)
EXTENDS Integers, Sequences, FiniteSets, TLC

VARIABLES
    vertices,     \* self.vertices: sequence of 3-vectors
    faces,        \* self.faces: sequence of triples of vertex indices
    edges,        \* self.edges: None, or sequence of index pairs
    normal_face,  \* self.normal_face: None, or one 3-vector per face
    data,         \* the array handed to unique_rows
    call          \* the last completed call: its name, arguments, locals and return value

vars == <<vertices, faces, edges, normal_face, data, call>>

\* Python's None for an attribute that was never populated (a value no
\* populated array equals: populated edges have 3 * len(faces) rows of
\* non-negative indices).
None == << <<-1, -1>> >>

-----------------------------------------------------------------------------
(* Bounds of the model *)

MaxFaces == 1
MaxTol == 1
MaxCoord == 1
MaxRows == 3

-----------------------------------------------------------------------------
(* numpy helpers *)

\* np.unique: the distinct members in ascending order
SortedSeq(S) ==
    [k \in 1..Cardinality(S) |->
        CHOOSE x \in S : Cardinality({y \in S : y < x}) = k - 1]

Sub(a, b) == <<a[1] - b[1], a[2] - b[2], a[3] - b[3]>>

Dot(a, b) == a[1] * b[1] + a[2] * b[2] + a[3] * b[3]

Cross(a, b) == <<a[2] * b[3] - a[3] * b[2],
                 a[3] * b[1] - a[1] * b[3],
                 a[1] * b[2] - a[2] * b[1]>>

\* the flat view of an (n, 3) index array: data.view().reshape(-1)
Flat(fs) == {fs[f][c] : f \in 1..Len(fs), c \in 1..3}

-----------------------------------------------------------------------------
(* replace_references *)

\* the array left as it is
replace_references_identity(fs, reference_dict) == fs

\* for i in xrange(len(dv)): if dv[i] in reference_dict: dv[i] = reference_dict[dv[i]]
replace_references(fs, reference_dict) ==
    [f \in 1..Len(fs) |->
        [c \in 1..3 |->
            IF fs[f][c] \in DOMAIN reference_dict
            THEN reference_dict[fs[f][c]]
            ELSE fs[f][c]]]

\* dict.update(np.column_stack((keys, [value] * len(keys))))
DictUpdate(d, keys, value) ==
    [k \in (DOMAIN d) \cup keys |-> IF k \in keys THEN value ELSE d[k]]

\* an empty dict()
EmptyDict == [k \in {} |-> 0]

-----------------------------------------------------------------------------
(* merge_vertices *)

\* squared Euclidean distance
Dist2(p, q) == Dot(Sub(p, q), Sub(p, q))

\* cKDTree(points).query_ball_point(points[index], tolerance): the indices of
\* all points at distance <= tolerance (compared on squares: tolerance >= 0)
query_ball_point(points, index, tolerance) ==
    {j \in 0..(Len(points) - 1) :
        Dist2(points[j + 1], points[index + 1]) <= tolerance * tolerance}

RECURSIVE MergeLoop_unmarked(_, _, _, _, _, _)
\* the loop without used[[neighbors]] = True
MergeLoop_unmarked(points, tolerance, index, used, unique, replacement_dict) ==
    IF index >= Len(points)
    THEN [unique |-> unique, replacement_dict |-> replacement_dict]
    ELSE LET neighbors == query_ball_point(points, index, tolerance)
         IN  MergeLoop_unmarked(points, tolerance, index + 1,
                                used,
                                Append(unique, index),
                                DictUpdate(replacement_dict, neighbors, Len(unique)))

RECURSIVE MergeLoop(_, _, _, _, _, _)
\* the loop of merge_vertices, from `index` on; returns the locals
\* unique and replacement_dict at its end
MergeLoop(points, tolerance, index, used, unique, replacement_dict) ==
    IF index >= Len(points)
    THEN [unique |-> unique, replacement_dict |-> replacement_dict]
    ELSE IF index \in used
         THEN MergeLoop(points, tolerance, index + 1, used, unique, replacement_dict)
         ELSE LET neighbors == query_ball_point(points, index, tolerance)
              IN  MergeLoop(points, tolerance, index + 1,
                            used \cup neighbors,
                            Append(unique, index),
                            DictUpdate(replacement_dict, neighbors, Len(unique)))

\* self.vertices[[index_list]]
Take(points, index_list) ==
    [k \in 1..Len(index_list) |-> points[index_list[k] + 1]]

merge_vertices(tolerance) ==
    \E r \in {MergeLoop(vertices, tolerance, 0, {}, << >>, EmptyDict)} :
        /\ vertices' = Take(vertices, r.unique)
        /\ faces' = replace_references(faces, r.replacement_dict)
        /\ call' = [op |-> "merge_vertices", tolerance |-> tolerance]
        /\ UNCHANGED <<edges, normal_face, data>>

-----------------------------------------------------------------------------
(* remove_unreferenced *)

\* the dict that keeps every index as it is
RankDict_identity(unique_ref) ==
    [i \in {unique_ref[k] : k \in 1..Len(unique_ref)} |-> i]

\* dict of unique_ref[k] -> k, k counted from 0
RankDict(unique_ref) ==
    [i \in {unique_ref[k] : k \in 1..Len(unique_ref)} |->
        (CHOOSE k \in 1..Len(unique_ref) : unique_ref[k] = i) - 1]

remove_unreferenced ==
    LET unique_ref == SortedSeq(Flat(faces))
        replacement_dict == RankDict(unique_ref)
    IN  /\ faces' = replace_references(faces, replacement_dict)
        \* vertices[[unique_ref]] raises IndexError on an index out of range,
        \* after faces was rewritten in place
        /\ IF \A k \in 1..Len(unique_ref) : unique_ref[k] < Len(vertices)
           THEN /\ vertices' = Take(vertices, unique_ref)
                /\ call' = [op |-> "remove_unreferenced", raised |-> ""]
           ELSE /\ vertices' = vertices
                /\ call' = [op |-> "remove_unreferenced", raised |-> "IndexError"]
        /\ UNCHANGED <<edges, normal_face, data>>

-----------------------------------------------------------------------------
(* generate_edges *)

Column(fs, i, j) == [f \in 1..Len(fs) |-> <<fs[f][i], fs[f][j]>>]

\* np.sort(rows, axis=1) on two-column rows
SortRows(rows) ==
    [r \in 1..Len(rows) |->
        IF rows[r][1] <= rows[r][2] THEN rows[r] ELSE <<rows[r][2], rows[r][1]>>]

\* the stacked columns without np.sort
EdgesOf_unsorted(fs) ==
    Column(fs, 1, 2) \o Column(fs, 2, 3) \o Column(fs, 3, 1)

\* np.sort(np.vstack((faces[:,(0,1)], faces[:,(1,2)], faces[:,(2,0)])), axis=1)
EdgesOf(fs) ==
    SortRows(Column(fs, 1, 2) \o Column(fs, 2, 3) \o Column(fs, 3, 1))

generate_edges ==
    /\ edges' = EdgesOf(faces)
    /\ call' = [op |-> "generate_edges"]
    /\ UNCHANGED <<vertices, faces, normal_face, data>>

-----------------------------------------------------------------------------
(* generate_normals *)

\* np.cross(vertices[face[0]] - vertices[face[1]], vertices[face[2]] - vertices[face[1]])
FaceNormal(vs, face) ==
    Cross(Sub(vs[face[1] + 1], vs[face[2] + 1]),
          Sub(vs[face[3] + 1], vs[face[2] + 1]))

\* fix_normals_direction computes two locals and returns None: with
\* fix_direction or without, the state after the call is the same
generate_normals(fix_direction) ==
    /\ normal_face' = [f \in 1..Len(faces) |-> FaceNormal(vertices, faces[f])]
    /\ call' = [op |-> "generate_normals", fix_direction |-> fix_direction]
    /\ UNCHANGED <<vertices, faces, edges, data>>

-----------------------------------------------------------------------------
(* unitize, plane_line_intersection, points_to_plane *)

\* points / sum(points ** 2) ** .5 for one row.  The square root is not
\* taken: the unit vector is vec / sqrt(norm2), and norm2 = 0 is the
\* division by zero.
unitize(v) == [vec |-> v, norm2 |-> Dot(v, v)]

Scale(k, v) == <<k * v[1], k * v[2], k * v[3]>>

Add(a, b) == <<a[1] + b[1], a[2] + b[2], a[3] + b[3]>>

\* One row of plane_line_intersection.  With L = unitize(pt1 - pt0) and
\* N = unitize(plane_dir):
\*     t = N.vec . (plane_ori - pt0) / sqrt(N.norm2)
\*     b = N.vec . L.vec / (sqrt(N.norm2) * sqrt(L.norm2))
\*     d = t / b
\*     pt0 + d * line_dir = pt0 + (tn / bn) * L.vec
\* where tn and bn are the two dot products.  The point is kept as
\* num / den with den = bn; norm2 is L.norm2 and plane_norm2 is N.norm2.
IntersectRow(plane_ori, plane_dir, p0, p1) ==
    LET L  == unitize(Sub(p1, p0))
        N  == unitize(plane_dir)
        tn == Dot(N.vec, Sub(plane_ori, p0))
        bn == Dot(N.vec, L.vec)
    IN  [num |-> Add(Scale(bn, p0), Scale(tn, L.vec)),
         den |-> bn,
         norm2 |-> L.norm2,
         plane_norm2 |-> N.norm2]

plane_line_intersection(plane_ori, plane_dir, pt0, pt1) ==
    [k \in 1..Len(pt0) |-> IntersectRow(plane_ori, plane_dir, pt0[k], pt1[k])]

\* One row of points_to_plane, for a point num / den
ProjectRow(pt, origin, normal) ==
    LET axis0  == <<normal[3], normal[1], normal[2]>>
        axis1  == Cross(normal, axis0)
        pt_vec == Sub(pt.num, Scale(pt.den, origin))
    IN  [num |-> <<Dot(pt_vec, axis0), Dot(pt_vec, axis1)>>, den |-> pt.den]

points_to_plane(points, origin, normal) ==
    [k \in 1..Len(points) |-> ProjectRow(points[k], origin, normal)]

-----------------------------------------------------------------------------
(* cross_section *)

\* the symmetric test: the endpoints are not strictly on one side
Hit_touching(d0, d1) == ~(d0 > 0 /\ d1 > 0) /\ ~(d0 < 0 /\ d1 < 0)

\* the test in one direction only
Hit_oneway(d0, d1) == d0 > 0 /\ d1 <= 0

\* np.logical_not(np.logical_xor((d0 > 0), (d1 <= 0))) for one edge
Hit(d0, d1) == ~((d0 > 0) # (d1 <= 0))

\* a.reshape((-1, 2, ...)): consecutive rows taken two by two
Reshape2(points) ==
    [k \in 1..(Len(points) \div 2) |-> <<points[2 * k - 1], points[2 * k]>>]

\* (vertices[i] - plane_origin) . plane_normal: the entry of d0 (of d1) for
\* an edge whose first (second) index is i
PlaneDot(i, plane_origin, plane_normal) ==
    Dot(Sub(vertices[i + 1], plane_origin), plane_normal)

\* The actions bind a local with \E over a singleton, so that its value is
\* computed once; AsArray is the identity on sequences and yields the
\* sequence in evaluated form.
AsArray(s) == SubSeq(s, 1, Len(s))

\* es is self.edges after self.generate_edges(); hits is the mask of line 68;
\* hit_edges is self.edges[hits] (a row's mask entry depends on the row alone,
\* so the rows are selected by the same test); the two sequences handed to
\* plane_line_intersection are p0 and p1.
cross_section(plane_origin, plane_normal, return_planar) ==
    IF Len(faces) = 0
    THEN /\ call' = [op |-> "cross_section", raised |-> "NameError"]
         /\ UNCHANGED <<vertices, faces, edges, normal_face, data>>
    ELSE \E es \in {AsArray(EdgesOf(faces))} :
         \E hit_edges \in {SelectSeq(es, LAMBDA e :
                             Hit(PlaneDot(e[1], plane_origin, plane_normal),
                                 PlaneDot(e[2], plane_origin, plane_normal)))} :
         \E intersections \in {AsArray(plane_line_intersection(plane_origin, plane_normal,
                                  [k \in 1..Len(hit_edges) |-> vertices[hit_edges[k][1] + 1]],
                                  [k \in 1..Len(hit_edges) |-> vertices[hit_edges[k][2] + 1]]))} :
         LET hits == [r \in 1..Len(es) |->
                        Hit(PlaneDot(es[r][1], plane_origin, plane_normal),
                            PlaneDot(es[r][2], plane_origin, plane_normal))]
             odd  == return_planar /\ Len(hit_edges) % 2 = 1
         IN  /\ edges' = es
             /\ call' = [op |-> "cross_section",
                         raised |-> IF odd THEN "ValueError" ELSE "",
                         plane_origin |-> plane_origin,
                         plane_normal |-> plane_normal,
                         return_planar |-> return_planar,
                         hits |-> hits,
                         intersections |-> intersections,
                         ret |-> IF odd THEN << >>
                                 ELSE IF return_planar
                                      THEN Reshape2(points_to_plane(intersections,
                                                        plane_origin, plane_normal))
                                      ELSE intersections]
             /\ UNCHANGED <<vertices, faces, normal_face, data>>

-----------------------------------------------------------------------------
(* row_to_string, unique_rows *)

\* the precision of format_str = "0.6f"
Decimals == 6

RECURSIVE Pow10(_)
Pow10(n) == IF n = 0 THEN 1 ELSE 10 * Pow10(n - 1)

DigitChars == <<"0", "1", "2", "3", "4", "5", "6", "7", "8", "9">>

RECURSIVE IntDigits(_)
IntDigits(n) ==
    IF n < 10 THEN <<DigitChars[n + 1]>>
    ELSE IntDigits(n \div 10) \o <<DigitChars[(n % 10) + 1]>>

Abs(n) == IF n < 0 THEN -n ELSE n

\* format(x, "0.6f") as a sequence of characters.  x is given in units of
\* 10^-(Decimals + 1): the integer v stands for v * 1e-7.  The value is
\* rounded to Decimals places (a tie to the even digit); a negative value
\* keeps its sign even when it rounds to zero ("-0.000000").
Format(v) ==
    LET a  == Abs(v)
        q0 == a \div 10
        r  == a % 10
        q  == IF r > 5 \/ (r = 5 /\ q0 % 2 = 1) THEN q0 + 1 ELSE q0
    IN  (IF v < 0 THEN <<"-">> ELSE << >>)
        \o IntDigits(q \div Pow10(Decimals))
        \o <<".">>
        \o [k \in 1..Decimals |-> DigitChars[((q \div Pow10(Decimals - k)) % 10) + 1]]

RECURSIVE row_to_string(_)
\* result = ""; for i in row: result += format(i, format_str)
row_to_string(row) ==
    IF row = << >> THEN << >>
    ELSE Format(Head(row)) \o row_to_string(Tail(row))

RECURSIVE UniqueLoop_keep_first(_, _, _, _)
\* the loop that clears the later occurrence only
UniqueLoop_keep_first(rows, index, first_occur, unique) ==
    IF index >= Len(rows) THEN unique
    ELSE LET hashable == row_to_string(rows[index + 1])
         IN  IF hashable \in DOMAIN first_occur
             THEN UniqueLoop_keep_first(rows, index + 1, first_occur,
                                        [unique EXCEPT ![index + 1] = FALSE])
             ELSE UniqueLoop_keep_first(rows, index + 1,
                      [h \in (DOMAIN first_occur) \cup {hashable} |->
                          IF h = hashable THEN index ELSE first_occur[h]],
                      unique)

RECURSIVE UniqueLoop(_, _, _, _)
\* the loop of unique_rows, from `index` on; returns the mask `unique`
UniqueLoop(rows, index, first_occur, unique) ==
    IF index >= Len(rows) THEN unique
    ELSE LET hashable == row_to_string(rows[index + 1])
         IN  IF hashable \in DOMAIN first_occur
             THEN UniqueLoop(rows, index + 1, first_occur,
                             [unique EXCEPT ![index + 1] = FALSE,
                                            ![first_occur[hashable] + 1] = FALSE])
             ELSE UniqueLoop(rows, index + 1,
                      [h \in (DOMAIN first_occur) \cup {hashable} |->
                          IF h = hashable THEN index ELSE first_occur[h]],
                      unique)

unique_rows ==
    /\ call' = [op |-> "unique_rows",
                ret |-> UniqueLoop(data, 0, [h \in {} |-> 0],
                                   [i \in 1..Len(data) |-> TRUE])]
    /\ UNCHANGED <<vertices, faces, edges, normal_face, data>>

-----------------------------------------------------------------------------
(* The mesh under merge_vertices, remove_unreferenced, generate_edges and  *)
(* cross_section                                                           *)

\* vertex positions of the initial meshes: two pairs at distance 1 and one
\* pair at distance sqrt(2); a position may occur at several indices
Pool == {<<0, 0, 0>>, <<1, 0, 0>>, <<1, 1, 0>>}

VertexArrays == UNION {[1..n -> Pool] : n \in 1..Cardinality(Pool)}

\* the index triples valid for n vertices
Triples(n) == (0..(n - 1)) \X (0..(n - 1)) \X (0..(n - 1))

Tolerances == 0..MaxTol

PlaneOrigins == {<<0, 0, 0>>}

\* the plane z = 0 and the slanted plane x + z = 0
PlaneNormals == {<<0, 0, 1>>, <<1, 0, 1>>}

\* the vertices of Pool all lie in z = 0: the slanted plane is the one that
\* separates them
MeshPlaneNormals == {<<1, 0, 1>>}

NoCall == [op |-> "init"]

Init ==
    /\ vertices \in VertexArrays
    /\ faces \in UNION {[1..n -> Triples(Len(vertices))] : n \in 0..MaxFaces}
    /\ edges = None
    /\ normal_face = None
    /\ data = << >>
    /\ call = NoCall

Next ==
    \/ \E tolerance \in Tolerances : merge_vertices(tolerance)
    \/ remove_unreferenced
    \/ generate_edges
    \/ \E o \in PlaneOrigins, n \in MeshPlaneNormals, rp \in BOOLEAN : cross_section(o, n, rp)

Spec == Init /\ [][Next]_vars

-----------------------------------------------------------------------------
(* cross_section over meshes that straddle the plane *)

\* x and y of the four vertices; z is drawn from ZLevels
Layout == << <<0, 0>>, <<1, 0>>, <<0, 1>>, <<1, 1>> >>

ZLevels == {-1, 0, 1}

SectionVertexArrays ==
    {[i \in 1..Len(Layout) |-> <<Layout[i][1], Layout[i][2], z[i]>>] :
        z \in [1..Len(Layout) -> ZLevels]}

\* the triangles over four vertices in both windings, and one face with a
\* repeated index
SectionFaces ==
    {t \in Triples(Len(Layout)) : t[1] < t[2] /\ t[1] < t[3] /\ t[2] # t[3]}
        \cup {<<0, 0, 1>>}

InitSection ==
    /\ vertices \in SectionVertexArrays
    /\ faces \in UNION {[1..n -> SectionFaces] : n \in 1..(MaxFaces + 1)}
    /\ edges = None
    /\ normal_face = None
    /\ data = << >>
    /\ call = NoCall

\* one call on each mesh: the call changes nothing but edges, and its result
\* depends on the mesh and the arguments alone
NextSection ==
    /\ call.op = "init"
    /\ \E o \in PlaneOrigins, n \in PlaneNormals, rp \in BOOLEAN : cross_section(o, n, rp)

SpecSection == InitSection /\ [][NextSection]_vars

-----------------------------------------------------------------------------
(* cross_section of a cube by the plane z = 0 *)

CubeSide == MaxCoord + 1

\* corner i of the cube, i = xbit + 2 * ybit + 4 * zbit, bottom at z = -b
Corner(i, b) ==
    <<CubeSide * (i % 2), CubeSide * ((i \div 2) % 2), CubeSide * (i \div 4) - b>>

CubeVertices(b) == [k \in 1..8 |-> Corner(k - 1, b)]

\* the corners of the six sides, each quadrilateral in cyclic order
Quads == << <<0, 1, 3, 2>>, <<4, 5, 7, 6>>, <<0, 1, 5, 4>>,
            <<2, 3, 7, 6>>, <<0, 2, 6, 4>>, <<1, 3, 7, 5>> >>

\* the two triangles of quadrilateral q, cut along one diagonal or the other
QuadFaces(q, diag) ==
    IF diag = 0
    THEN << <<q[1], q[2], q[3]>>, <<q[1], q[3], q[4]>> >>
    ELSE << <<q[1], q[2], q[4]>>, <<q[2], q[3], q[4]>> >>

RECURSIVE CubeFaces(_, _)
CubeFaces(diags, s) ==
    IF s > Len(Quads) THEN << >>
    ELSE QuadFaces(Quads[s], diags[s]) \o CubeFaces(diags, s + 1)

InitCube ==
    /\ \E b \in 1..MaxCoord : vertices = CubeVertices(b)
    /\ \E diags \in [1..Len(Quads) -> {0, 1}] : faces = CubeFaces(diags, 1)
    /\ edges = None
    /\ normal_face = None
    /\ data = << >>
    /\ call = NoCall

NextCube ==
    \E rp \in BOOLEAN : cross_section(<<0, 0, 0>>, <<0, 0, 1>>, rp)

SpecCube == InitCube /\ [][NextCube]_vars

-----------------------------------------------------------------------------
(* generate_normals of one triangle *)

Grid == (0..MaxCoord) \X (0..MaxCoord) \X (0..MaxCoord)

InitNormal ==
    /\ vertices \in [1..3 -> Grid]
    /\ faces \in {<<t>> : t \in {u \in Triples(3) : {u[1], u[2], u[3]} = {0, 1, 2}}}
    /\ edges = None
    /\ normal_face = None
    /\ data = << >>
    /\ call = NoCall

NextNormal ==
    \E fix_direction \in BOOLEAN : generate_normals(fix_direction)

SpecNormal == InitNormal /\ [][NextNormal]_vars

-----------------------------------------------------------------------------
(* unique_rows *)

\* row entries in units of 1e-7: -4e-7, 0, 4e-7 (all three print as zero,
\* the first with a sign) and 1.0
Values == {-4, 0, 4, 10000000}

Rows == {<<a, b>> : a \in Values, b \in Values}

InitRows ==
    /\ data \in UNION {[1..n -> Rows] : n \in 0..MaxRows}
    /\ vertices = << >>
    /\ faces = << >>
    /\ edges = None
    /\ normal_face = None
    /\ call = NoCall

NextRows == unique_rows

SpecRows == InitRows /\ [][NextRows]_vars

-----------------------------------------------------------------------------
(* Properties of the mesh operations (Spec) *)

\* C1. Reference integrity: starting from valid face indices, after any
\* sequence of merge_vertices and remove_unreferenced calls every entry of
\* faces is an index of the current vertex array, 0 <= idx < len(vertices).
ReferenceIntegrity ==
    \A f \in 1..Len(faces) : \A c \in 1..3 :
        0 <= faces[f][c] /\ faces[f][c] < Len(vertices)

\* edges was derived when the mesh had a vertex 2, and the mesh has two
\* vertices now: a vertex was merged away or removed since
EdgesRecallThirdVertex ==
    /\ edges # None
    /\ \E r \in 1..Len(edges) : edges[r][2] = 2
    /\ Len(vertices) = 2

\* a merge at tolerance 1 that took three vertices to two, with a face on them
ReferenceIntegrityWitness ==
    /\ call.op = "merge_vertices"
    /\ call.tolerance = 1
    /\ EdgesRecallThirdVertex
    /\ \E f \in 1..Len(faces) : faces[f][3] = 1

\* C2. Merge separation: after merge_vertices(tolerance) every two distinct
\* vertices left in the vertex array are at Euclidean distance >= tolerance.
MergeSeparation ==
    call.op = "merge_vertices" =>
        \A i \in 1..Len(vertices) : \A j \in 1..Len(vertices) :
            i # j => Dist2(vertices[i], vertices[j]) >= call.tolerance * call.tolerance

\* the merge at tolerance 1 of three vertices of which the two survivors are
\* at distance sqrt(2)
MergeSeparationWitness ==
    /\ call.op = "merge_vertices"
    /\ call.tolerance = 1
    /\ EdgesRecallThirdVertex
    /\ Dist2(vertices[1], vertices[2]) = 2

\* C3. After remove_unreferenced the indices occurring in faces are exactly
\* 0 .. len(vertices) - 1: every vertex is referenced by a face.
AllVerticesReferenced ==
    (call.op = "remove_unreferenced" /\ call.raised = "") =>
        Flat(faces) = 0..(Len(vertices) - 1)

\* remove_unreferenced dropped a vertex of a mesh that had three
AllVerticesReferencedWitness ==
    /\ call.op = "remove_unreferenced"
    /\ call.raised = ""
    /\ EdgesRecallThirdVertex
    /\ Len(faces) = 1

\* the sorted pairs (a,b), (b,c), (c,a) of the faces, row by row: row
\* k * F + f (from 0) is side k of face f
ExpectedEdges ==
    [r \in 1..(3 * Len(faces)) |->
        LET f == ((r - 1) % Len(faces)) + 1
            k == (r - 1) \div Len(faces)
            a == faces[f][k + 1]
            b == faces[f][((k + 1) % 3) + 1]
        IN  IF a <= b THEN <<a, b>> ELSE <<b, a>>]

\* C7 as stated. Edge freshness: once populated, edges has 3 * len(faces)
\* rows and equals the sorted pairs derived from the current faces, in
\* every reachable state.
EdgesNeverStale ==
    edges # None => (Len(edges) = 3 * Len(faces) /\ edges = ExpectedEdges)

\* C7 as amended. Once populated, edges has 3 * len(faces) rows in every
\* reachable state, and it equals the sorted pairs derived from the current
\* faces in the state a generate_edges or cross_section call returns in.
EdgesFreshAfterDerivation ==
    edges # None =>
        /\ Len(edges) = 3 * Len(faces)
        /\ (call.op = "generate_edges" \/ (call.op = "cross_section" /\ call.raised = ""))
               => edges = ExpectedEdges

\* populated edges that a later merge_vertices left behind the faces
EdgesFreshAfterDerivationWitness ==
    /\ call.op = "merge_vertices"
    /\ edges # None
    /\ Len(faces) > 0
    /\ Len(edges) = 3 * Len(faces)
    /\ edges # ExpectedEdges

-----------------------------------------------------------------------------
(* Properties of cross_section (SpecSection, SpecCube) *)

Returned == call.op = "cross_section" /\ call.raised = ""

\* d0 and d1 of row r of edges, for the plane of the last call
D0(r) == PlaneDot(edges[r][1], call.plane_origin, call.plane_normal)

D1(r) == PlaneDot(edges[r][2], call.plane_origin, call.plane_normal)

\* two points num / den are the same point
SamePoint(p, q) ==
    \A c \in 1..3 : p.num[c] * q.den = q.num[c] * p.den

\* side k (0, 1, 2) of face f as its sorted index pair
Side(f, k) ==
    LET a == faces[f][k + 1]
        b == faces[f][((k + 1) % 3) + 1]
    IN  IF a <= b THEN <<a, b>> ELSE <<b, a>>

SideHit(f, k) ==
    (PlaneDot(Side(f, k)[1], call.plane_origin, call.plane_normal) > 0)
        # (PlaneDot(Side(f, k)[2], call.plane_origin, call.plane_normal) > 0)

\* where the line through side k of face f meets the plane
SidePoint(f, k) ==
    IntersectRow(call.plane_origin, call.plane_normal,
                 vertices[Side(f, k)[1] + 1], vertices[Side(f, k)[2] + 1])

\* p and q are the plane intersections of the two hit sides of face f
SegmentOfFace(f, p, q) ==
    \E k1 \in 0..2 : \E k2 \in 0..2 :
        /\ k1 # k2
        /\ SideHit(f, k1)
        /\ SideHit(f, k2)
        /\ SamePoint(p, SidePoint(f, k1))
        /\ SamePoint(q, SidePoint(f, k2))

\* C4. Segment pairing: the points cross_section computes, taken two by two
\* (points 2k and 2k+1), are the two ends of one segment of the section:
\* the plane intersections of the two hit edges of a single face.
SegmentPairing ==
    Returned =>
        \A k \in 1..(Len(call.intersections) \div 2) :
            \E f \in 1..Len(faces) :
                SegmentOfFace(f, call.intersections[2 * k - 1], call.intersections[2 * k])

\* the number of point pairs the call returned
NumSegments ==
    IF call.return_planar THEN Len(call.ret) ELSE Len(call.ret) \div 2

\* C5 as stated. The cube (8 vertices, 12 triangles, bottom below and top
\* above z = 0) cut by the plane z = 0 gives exactly 4 segments.
CubeFourSegments ==
    Returned => NumSegments = 4

\* C5 as amended. The cube cut by the plane z = 0 gives exactly 8 point
\* pairs, 16 intersection points: two for each of the 8 triangles of its
\* four sides, all of them in the plane.
CubeEightSegments ==
    Returned =>
        /\ NumSegments = 8
        /\ Len(call.intersections) = 16
        /\ \A k \in 1..Len(call.intersections) :
               /\ call.intersections[k].den # 0
               /\ call.intersections[k].num[3] = 0

CubeEightSegmentsWitness ==
    /\ Returned
    /\ Len(vertices) = 8
    /\ Len(faces) = 12
    /\ call.return_planar
    /\ Len(call.ret) = 8

\* C6 as stated. An edge is a hit exactly when its two endpoints are not
\* strictly on the same side of the plane.
HitIffNotSameSide ==
    Returned =>
        \A r \in 1..Len(edges) :
            call.hits[r] <=> (~(D0(r) > 0 /\ D1(r) > 0) /\ ~(D0(r) < 0 /\ D1(r) < 0))

\* C6 as amended. An edge is a hit exactly when one endpoint is strictly on
\* the positive side of the plane and the other is not (d > 0 for one,
\* d <= 0 for the other).
HitIffOnePositive ==
    Returned =>
        \A r \in 1..Len(edges) :
            call.hits[r] <=> ((D0(r) > 0 /\ D1(r) <= 0) \/ (D1(r) > 0 /\ D0(r) <= 0))

\* one call with an edge in the plane and an edge that touches it from
\* below, neither a hit, and an edge that touches it from above, a hit
HitIffOnePositiveWitness ==
    /\ Returned
    /\ \E r \in 1..Len(edges) : D0(r) = 0 /\ D1(r) = 0 /\ ~call.hits[r]
    /\ \E r \in 1..Len(edges) : D0(r) * D1(r) = 0 /\ D0(r) + D1(r) < 0 /\ ~call.hits[r]
    /\ \E r \in 1..Len(edges) : D0(r) * D1(r) = 0 /\ D0(r) + D1(r) > 0 /\ call.hits[r]

\* C10. No degenerate intersection inside cross_section: for a non-zero
\* plane normal, every edge handed to plane_line_intersection has distinct
\* endpoints and is not parallel to the plane, so neither unitize nor t / b
\* divides by zero.
NoDegenerateIntersection ==
    Returned =>
        \A k \in 1..Len(call.intersections) :
            /\ call.intersections[k].norm2 # 0
            /\ call.intersections[k].plane_norm2 # 0
            /\ call.intersections[k].den # 0

\* a call that intersected some edges and passed over an edge parallel to
\* the plane and over an edge with both ends at one vertex
NoDegenerateIntersectionWitness ==
    /\ Returned
    /\ Len(call.intersections) > 0
    /\ \E r \in 1..Len(edges) :
           edges[r][1] # edges[r][2] /\ D0(r) = D1(r) /\ ~call.hits[r]
    /\ \E r \in 1..Len(edges) : edges[r][1] = edges[r][2] /\ ~call.hits[r]

-----------------------------------------------------------------------------
(* Properties of generate_normals (SpecNormal) *)

\* C8. Normal sign: for the single face (0,1,2) over the vertices (0,0,0),
\* (1,0,0), (0,1,0), counter-clockwise seen from +z, generate_normals
\* stores a normal along +z: x = 0, y = 0, z > 0.
NormalAlongPlusZ ==
    (/\ call.op = "generate_normals"
     /\ vertices = << <<0, 0, 0>>, <<1, 0, 0>>, <<0, 1, 0>> >>
     /\ faces = << <<0, 1, 2>> >>)
        => (/\ normal_face[1][1] = 0
            /\ normal_face[1][2] = 0
            /\ normal_face[1][3] > 0)

-----------------------------------------------------------------------------
(* Properties of unique_rows (SpecRows) *)

\* C9. unique_rows duplicate mask: the mask is True at index i if and only
\* if no other row has the same key (row_to_string) as row i; every row of
\* a group of equal keys, the first one and groups of three included, is
\* marked False.
UniqueMaskIffNoDuplicate ==
    call.op = "unique_rows" =>
        /\ Len(call.ret) = Len(data)
        /\ \A i \in 1..Len(data) :
               call.ret[i] <=>
                   ~(\E j \in 1..Len(data) :
                        j # i /\ row_to_string(data[j]) = row_to_string(data[i]))

\* three rows of one key, not all equal as numbers, all marked False
UniqueMaskIffNoDuplicateWitness ==
    /\ call.op = "unique_rows"
    /\ Len(data) = 3
    /\ data[1] # data[2]
    /\ row_to_string(data[1]) = row_to_string(data[2])
    /\ row_to_string(data[2]) = row_to_string(data[3])
    /\ \A i \in 1..3 : ~call.ret[i]

=============================================================================
